---------------------------- MODULE Spec2Model ----------------------------
(***************************************************************************)
(* Model of backend2.js: the cover-letter backend.                         *)
(*                                                                         *)
(* The file holds two servers one after the other: the gated server        *)
(* (lines 1-463: payment gate, validated /analyze-jd, regular-expression   *)
(* field extractors) and a second, ungated server (lines 464-691).  The    *)
(* model covers the gated server's request handling and its two field      *)
(* extractors, plus the error-handling middleware of line 684.             *)
(*                                                                         *)
(* Text is a sequence of one-character strings.  The regular expressions   *)
(* of the source are written as syntax trees and run by a backtracking     *)
(* matcher that lists the possible ends of a match in the order a          *)
(* backtracking engine tries them, so the first entry is the match         *)
(* String.prototype.match returns.                                         *)
(***************************************************************************)
EXTENDS Integers, Sequences, FiniteSets, TLC

(***************************************************************************)
(* Characters and character classes                                        *)
(***************************************************************************)
UpperSeq ==
    <<"A","B","C","D","E","F","G","H","I","J","K","L","M",
      "N","O","P","Q","R","S","T","U","V","W","X","Y","Z">>

LowerSeq ==
    <<"a","b","c","d","e","f","g","h","i","j","k","l","m",
      "n","o","p","q","r","s","t","u","v","w","x","y","z">>

Upper == {UpperSeq[i] : i \in 1..26}

Lower == {LowerSeq[i] : i \in 1..26}

Digit == {"0","1","2","3","4","5","6","7","8","9"}

Letter == Upper \cup Lower

\* \w
WordChar == Letter \cup Digit \cup {"_"}

\* \s, which is also the set String.prototype.trim strips (the members
\* that a text here can hold)
Space == {" ", "\n", "\t", "\r"}

\* the other case of a letter; any other character is its own other case
ToggleCase(c) ==
    IF c \in Upper THEN LowerSeq[CHOOSE i \in 1..26 : UpperSeq[i] = c]
    ELSE IF c \in Lower THEN UpperSeq[CHOOSE i \in 1..26 : LowerSeq[i] = c]
    ELSE c

(***************************************************************************)
(* Regular-expression syntax trees                                         *)
(***************************************************************************)
Eps == [t |-> "eps"]

Chr(S) == [t |-> "chr", set |-> S]

NotChr(S) == [t |-> "nchr", set |-> S]

\* [^] : any character, line terminators included
AnyChar == [t |-> "any"]

Cat(a, b) == [t |-> "cat", a |-> a, b |-> b]

Alt(a, b) == [t |-> "alt", a |-> a, b |-> b]

\* a* (greedy)
Star(a) == [t |-> "star", a |-> a]

\* a*? (lazy)
LazyStar(a) == [t |-> "lazystar", a |-> a]

\* a+
Plus(a) == Cat(a, Star(a))

\* a+?
LazyPlus(a) == Cat(a, LazyStar(a))

\* a?
Opt(a) == Alt(a, Eps)

\* (?=a)
Look(a) == [t |-> "look", a |-> a]

\* $ without the m flag: end of input
Eof == [t |-> "eof"]

\* \b
WordB == [t |-> "wordb"]

RECURSIVE Lit(_)
\* a literal string, character by character
Lit(s) == IF s = <<>> THEN Eps
          ELSE IF Len(s) = 1 THEN Chr({s[1]})
          ELSE Cat(Chr({s[1]}), Lit(Tail(s)))

RECURSIVE Times(_, _)
\* a{n}
Times(a, n) == IF n = 0 THEN Eps ELSE IF n = 1 THEN a ELSE Cat(a, Times(a, n - 1))

(***************************************************************************)
(* The backtracking matcher.  Positions are 1-based; a position is the     *)
(* index of the next character to read, Len(text) + 1 at the end.          *)
(* Ends(re, text, pos, ci) is the sequence of positions where a match of   *)
(* re that starts at pos can end, in the engine's order of preference.     *)
(* ci is the i flag.                                                       *)
(***************************************************************************)
InClass(c, S, ci) == c \in S \/ (ci /\ ToggleCase(c) \in S)

IsWordAt(text, i) == i >= 1 /\ i <= Len(text) /\ text[i] \in WordChar

\* a pattern that reads exactly one character
IsSingle(re) == re.t \in {"chr", "nchr", "any"}

\* does the one-character pattern re accept the character at position i
Accepts(re, text, i, ci) ==
    /\ i >= 1
    /\ i <= Len(text)
    /\ CASE re.t = "chr" -> InClass(text[i], re.set, ci)
         [] re.t = "nchr" -> ~InClass(text[i], re.set, ci)
         [] re.t = "any" -> TRUE

\* the length of the longest run of characters from pos that re accepts
RunLen(re, text, pos, ci) ==
    CHOOSE k \in 0..(Len(text) + 1 - pos) :
        /\ \A j \in 0..(k - 1) : Accepts(re, text, pos + j, ci)
        /\ ~Accepts(re, text, pos + k, ci)

RECURSIVE Flatten(_)
\* the concatenation of a sequence of sequences, by halves
Flatten(ss) ==
    IF ss = <<>> THEN <<>>
    ELSE IF Len(ss) = 1 THEN ss[1]
    ELSE LET h == Len(ss) \div 2
         IN  Flatten(SubSeq(ss, 1, h)) \o Flatten(SubSeq(ss, h + 1, Len(ss)))

\* Where a value is used more than once it is bound first:
\* CHOOSE r \in {f(v) : v \in {e}} : TRUE is f(e) with e evaluated once.
RECURSIVE Ends(_, _, _, _), EndsAt(_, _, _, _), FlatEnds(_, _, _, _)
EndsAt(re, text, pos, ci) ==
    CASE re.t = "eps" -> <<pos>>
      [] IsSingle(re) ->
            IF Accepts(re, text, pos, ci) THEN <<pos + 1>> ELSE <<>>
      [] re.t = "cat" -> FlatEnds(re.b, text, Ends(re.a, text, pos, ci), ci)
      [] re.t = "alt" -> Ends(re.a, text, pos, ci) \o Ends(re.b, text, pos, ci)
      [] re.t = "star" ->
            \* longest first; a run of single characters is listed directly
            IF IsSingle(re.a)
            THEN CHOOSE r \in {[i \in 1..(k + 1) |-> pos + k + 1 - i] :
                                  k \in {RunLen(re.a, text, pos, ci)}} : TRUE
            ELSE FlatEnds(re, text,
                          SelectSeq(Ends(re.a, text, pos, ci), LAMBDA e : e > pos),
                          ci)
                 \o <<pos>>
      [] re.t = "lazystar" ->
            \* shortest first
            IF IsSingle(re.a)
            THEN CHOOSE r \in {[i \in 1..(k + 1) |-> pos + i - 1] :
                                  k \in {RunLen(re.a, text, pos, ci)}} : TRUE
            ELSE <<pos>> \o
                 FlatEnds(re, text,
                          SelectSeq(Ends(re.a, text, pos, ci), LAMBDA e : e > pos),
                          ci)
      [] re.t = "look" ->
            IF Ends(re.a, text, pos, ci) # <<>> THEN <<pos>> ELSE <<>>
      [] re.t = "eof" -> IF pos = Len(text) + 1 THEN <<pos>> ELSE <<>>
      [] re.t = "wordb" ->
            IF IsWordAt(text, pos - 1) # IsWordAt(text, pos)
            THEN <<pos>> ELSE <<>>

Ends(re, text, pos, ci) ==
    CHOOSE r \in {EndsAt(v, t, p, ci) : v \in {re}, t \in {text}, p \in {pos}} : TRUE

\* the ends of re from each of the starts, in the order of the starts
FlatEnds(re, text, starts, ci) ==
    CHOOSE r \in {Flatten([i \in 1..Len(ss) |-> Ends(re, text, ss[i], ci)]) :
                     ss \in {starts}} : TRUE

(***************************************************************************)
(* A regular expression with (at most) one capture of interest is kept as  *)
(* three parts: what precedes the capture, the captured part, what         *)
(* follows.  A match is <<start, capStart, capEnd, end>>.                  *)
(***************************************************************************)
Rx(pre, cap, post, ci) == [pre |-> pre, cap |-> cap, post |-> post, ci |-> ci]

\* the ways to continue path p by re, in the engine's order
ExtendOne(p, re, text, ci) ==
    CHOOSE r \in {[i \in 1..Len(es) |-> Append(p, es[i])] :
                     es \in {Ends(re, text, p[Len(p)], ci)}} : TRUE

\* every path continued by every end of re from the path's last position
Extend(paths, re, text, ci) ==
    CHOOSE r \in {Flatten([n \in 1..Len(ps) |-> ExtendOne(ps[n], re, text, ci)]) :
                     ps \in {paths}} : TRUE

\* the matches that start at s, in the engine's order
MatchAt(rx, text, s) ==
    Extend(Extend(Extend(<< <<s>> >>, rx.pre, text, rx.ci),
                  rx.cap, text, rx.ci),
           rx.post, text, rx.ci)

NoMatch == [found |-> FALSE]

AsMatch(m) ==
    [found |-> TRUE, start |-> m[1], capStart |-> m[2], capEnd |-> m[3],
     end |-> m[4]]

\* the leftmost start in 1..Len(text)+1 that has a match, and there the
\* first match in the engine's order; ms[s] lists the matches that start at s
FirstMatch(rx, text) ==
    CHOOSE r \in
      {IF \A s \in 1..Len(ms) : ms[s] = <<>> THEN NoMatch
       ELSE AsMatch(ms[CHOOSE s \in 1..Len(ms) :
                          ms[s] # <<>> /\ \A k \in 1..(s - 1) : ms[k] = <<>>][1]) :
         ms \in {[s \in 1..(Len(text) + 1) |-> MatchAt(rx, text, s)] \o <<>>}}
      : TRUE

\* text.match(rx) without the g flag; null (NoMatch) when nothing matches
Match(text, rx) ==
    CHOOSE r \in {FirstMatch(x, t) : x \in {rx}, t \in {text}} : TRUE

\* m[0] and m[1] of a match
Whole(text, m) == SubSeq(text, m.start, m.end - 1)

Group1(text, m) == SubSeq(text, m.capStart, m.capEnd - 1)

(***************************************************************************)
(* JavaScript string operations on character sequences                     *)
(***************************************************************************)
\* a string as the sequence of its characters, and back
Chars(str) == [i \in 1..Len(str) |-> SubSeq(str, i, i)]

RECURSIVE Str(_)
Str(cs) ==
    IF cs = <<>> THEN ""
    ELSE IF Len(cs) = 1 THEN cs[1]
    ELSE LET h == Len(cs) \div 2
         IN  Str(SubSeq(cs, 1, h)) \o Str(SubSeq(cs, h + 1, Len(cs)))

RECURSIVE TrimLeft(_)
TrimLeft(cs) == IF cs # <<>> /\ Head(cs) \in Space THEN TrimLeft(Tail(cs)) ELSE cs

RECURSIVE TrimRight(_)
TrimRight(cs) ==
    IF cs # <<>> /\ cs[Len(cs)] \in Space
    THEN TrimRight(SubSeq(cs, 1, Len(cs) - 1)) ELSE cs

\* String.prototype.trim
Trim(cs) == TrimRight(TrimLeft(cs))

RECURSIVE SplitLines(_)
\* cs.split('\n'): always at least one piece
SplitLines(cs) ==
    IF \E i \in 1..Len(cs) : cs[i] = "\n"
    THEN LET i == CHOOSE k \in 1..Len(cs) :
                      cs[k] = "\n" /\ \A j \in 1..(k - 1) : cs[j] # "\n"
         IN  <<SubSeq(cs, 1, i - 1)>> \o SplitLines(SubSeq(cs, i + 1, Len(cs)))
    ELSE <<cs>>

RECURSIVE SplitFrom(_, _, _, _)
\* the loop of String.prototype.split for a separator pattern that cannot
\* match the empty string: p is the start of the current piece, q the
\* position where the separator is tried next, es[x] the ends of the
\* separator tried at x
SplitFrom(cs, es, p, q) ==
    IF \E x \in q..Len(cs) : es[x] # <<>> /\ es[x][1] # p
    THEN LET x == CHOOSE h \in q..Len(cs) :
                      /\ es[h] # <<>> /\ es[h][1] # p
                      /\ \A y \in q..(h - 1) : es[y] = <<>> \/ es[y][1] = p
         IN  <<SubSeq(cs, p, x - 1)>> \o SplitFrom(cs, es, es[x][1], es[x][1])
    ELSE <<SubSeq(cs, p, Len(cs))>>

\* cs.split(re)
SplitRe(cs, re) ==
    CHOOSE r \in
      {SplitFrom(t, es, 1, 1) :
         t \in {cs},
         es \in {[x \in 1..Len(cs) |-> Ends(re, cs, x, FALSE)] \o <<>>}} : TRUE

\* Array.prototype.slice(1)
Slice1(seq) == IF seq = <<>> THEN <<>> ELSE Tail(seq)

RECURSIVE FlatMapSplit(_, _)
\* lines.flatMap(line => line.split(re))
FlatMapSplit(lines, re) ==
    IF lines = <<>> THEN <<>>
    ELSE SplitRe(Head(lines), re) \o FlatMapSplit(Tail(lines), re)

\* String.prototype.includes: exact, case-sensitive substring containment
Includes(cs, sub) ==
    \E i \in 1..(Len(cs) - Len(sub) + 1) : SubSeq(cs, i, i + Len(sub) - 1) = sub

MapTrim(seq) == [i \in 1..Len(seq) |-> Trim(seq[i])]

MapStr(seq) == [i \in 1..Len(seq) |-> Str(seq[i])]

(***************************************************************************)
(* extractResumeData                                                       *)
(***************************************************************************)
\* /\b[A-Za-z0-9._%+-]+@[A-Za-z0-9.-]+\.[A-Z|a-z]{2,}\b/
EmailRx ==
    Rx(Eps,
       Cat(WordB,
       Cat(Plus(Chr(Letter \cup Digit \cup {".", "_", "%", "+", "-"})),
       Cat(Lit(<<"@">>),
       Cat(Plus(Chr(Letter \cup Digit \cup {".", "-"})),
       Cat(Lit(<<".">>),
       Cat(Times(Chr(Letter \cup {"|"}), 2),
       Cat(Star(Chr(Letter \cup {"|"})),
           WordB))))))),
       Eps, FALSE)

\* /(\+?\d{1,2}\s?)?\(?\d{3}\)?[\s.-]?\d{3}[\s.-]?\d{4}\b/
PhoneRx ==
    Rx(Eps,
       Cat(Opt(Cat(Opt(Lit(<<"+">>)),
               Cat(Chr(Digit), Cat(Opt(Chr(Digit)), Opt(Chr(Space)))))),
       Cat(Opt(Lit(<<"(">>)),
       Cat(Times(Chr(Digit), 3),
       Cat(Opt(Lit(<<")">>)),
       Cat(Opt(Chr(Space \cup {".", "-"})),
       Cat(Times(Chr(Digit), 3),
       Cat(Opt(Chr(Space \cup {".", "-"})),
       Cat(Times(Chr(Digit), 4),
           WordB)))))))),
       Eps, FALSE)

\* /(h1|h2|h3):?\s*([^]+?)(?=\n\w+:|$)/i
SectionRx(h1, h2, h3) ==
    Rx(Cat(Alt(Lit(Chars(h1)), Alt(Lit(Chars(h2)), Lit(Chars(h3)))),
       Cat(Opt(Lit(<<":">>)), Star(Chr(Space)))),
       LazyPlus(AnyChar),
       Look(Alt(Cat(Lit(<<"\n">>), Cat(Plus(Chr(WordChar)), Lit(<<":">>))), Eof)),
       TRUE)

\* /[,;â€¢]+\s*/ : the three characters after ; are the bytes
\* of a bullet read in the wrong encoding, as they stand in the source
SkillSepRe == Cat(Plus(Chr({",", ";", "u00E2", "u20AC", "u00A2"})), Star(Chr(Space)))

SkillMinLen == 2

EntryMinLen == 10

\* KeepSkill without the length test
KeepSkill_AnyLength(tok) == Trim(tok) # <<>>

\* .filter(skill => skill.trim() && skill.trim().length > 2)
KeepSkill(tok) == Trim(tok) # <<>> /\ Len(Trim(tok)) > SkillMinLen

\* .filter(line => line.trim() && line.trim().length > 10)
KeepEntry(line) == Trim(line) # <<>> /\ Len(Trim(line)) > EntryMinLen

\* the skills list before the fallback
SkillsOf(cs) ==
    LET m == Match(cs, SectionRx("skills", "technical skills", "key skills"))
    IN  IF m.found
        THEN MapTrim(SelectSeq(
                 FlatMapSplit(Slice1(SplitLines(Whole(cs, m))), SkillSepRe),
                 KeepSkill))
        ELSE <<>>

\* the experience and education lists before the fallback
EntriesOf(cs, rx) ==
    LET m == Match(cs, rx)
    IN  IF m.found
        THEN MapTrim(SelectSeq(Slice1(SplitLines(Whole(cs, m))), KeepEntry))
        ELSE <<>>

NonBlank(line) == Trim(line) # <<>>

\* The outcome of a call: the returned value, or the exception it throws.
Returned(v) == [raised |-> FALSE, value |-> v]

Raised(e) == [raised |-> TRUE, error |-> e]

ResumeOf(cs) ==
    LET lines == SelectSeq(SplitLines(cs), NonBlank)
        emailMatch == Match(cs, EmailRx)
        phoneMatch == Match(cs, PhoneRx)
        skills == SkillsOf(cs)
        experience ==
            EntriesOf(cs, SectionRx("experience", "work history", "employment history"))
        education ==
            EntriesOf(cs, SectionRx("education", "academic background", "qualifications"))
    IN  IF lines = <<>>
        THEN \* lines[0] is undefined: undefined.trim() throws
             Raised("TypeError")
        ELSE Returned(
               [name |-> Str(Trim(lines[1])),
                email |-> IF emailMatch.found THEN Str(Whole(cs, emailMatch)) ELSE "",
                phone |-> IF phoneMatch.found THEN Str(Whole(cs, phoneMatch)) ELSE "",
                experience |-> IF experience # <<>> THEN MapStr(experience)
                               ELSE <<"Various professional experiences">>,
                education |-> IF education # <<>> THEN MapStr(education)
                              ELSE <<"Relevant educational background">>,
                skills |-> IF skills # <<>> THEN MapStr(skills)
                           ELSE <<"Various professional skills">>])

extractResumeData(text) ==
    CHOOSE r \in {ResumeOf(cs) : cs \in {Chars(text) \o <<>>}} : TRUE

(***************************************************************************)
(* analyzeJobDescription                                                   *)
(***************************************************************************)
\* [a-zA-Z0-9\s-]
CompanyTail == Letter \cup Digit \cup Space \cup {"-"}

\* /at\s+([A-Z][a-zA-Z0-9\s-]*)/i
CompanyAtRx ==
    Rx(Cat(Lit(Chars("at")), Plus(Chr(Space))),
       Cat(Chr(Upper), Star(Chr(CompanyTail))), Eps, TRUE)

\* /company:\s*([^\n]+)/i
CompanyLabelRx ==
    Rx(Cat(Lit(Chars("company:")), Star(Chr(Space))),
       Plus(NotChr({"\n"})), Eps, TRUE)

\* /about\s+([A-Z][a-zA-Z0-9\s-]*)/i
CompanyAboutRx ==
    Rx(Cat(Lit(Chars("about")), Plus(Chr(Space))),
       Cat(Chr(Upper), Star(Chr(CompanyTail))), Eps, TRUE)

\* /<label>\s*([^\n]+)/i  for position: and role:
RoleLabelRx(label) ==
    Rx(Cat(Lit(Chars(label)), Star(Chr(Space))), Plus(NotChr({"\n"})), Eps, TRUE)

\* /<lead>\s+([^\n]+)/i  for "looking for a" and "seeking a"
RoleLeadRx(lead) ==
    Rx(Cat(Lit(Chars(lead)), Plus(Chr(Space))), Plus(NotChr({"\n"})), Eps, TRUE)

\* a || b || c on match results
OrElse(m1, m2) == IF m1.found THEN m1 ELSE m2

companyMatch(cs) ==
    OrElse(Match(cs, CompanyAtRx),
           OrElse(Match(cs, CompanyLabelRx), Match(cs, CompanyAboutRx)))

roleMatch(cs) ==
    OrElse(Match(cs, RoleLabelRx("position:")),
           OrElse(Match(cs, RoleLabelRx("role:")),
                  OrElse(Match(cs, RoleLeadRx("looking for a")),
                         Match(cs, RoleLeadRx("seeking a")))))

\* the five trigger words and the phrase each one appends, in check order
Triggers ==
    << <<"experience", "X years of experience">>,
       <<"degree", "Bachelor's degree or higher">>,
       <<"communication", "Strong communication skills">>,
       <<"team", "Team player">>,
       <<"leadership", "Leadership abilities">> >>

skillKeywords ==
    <<"JavaScript", "Python", "Java", "C++", "React", "Angular",
      "Node.js", "SQL", "NoSQL", "AWS", "Azure", "Docker",
      "Kubernetes", "CI/CD", "Agile", "Scrum", "Figma",
      "Photoshop", "Illustrator", "SEO", "SEM", "Google Analytics",
      "Email Marketing", "Social Media", "Content Creation">>

RECURSIVE PushTriggers(_, _)
PushTriggers(cs, i) ==
    IF i > Len(Triggers) THEN <<>>
    ELSE (IF Includes(cs, Chars(Triggers[i][1])) THEN <<Triggers[i][2]>> ELSE <<>>)
         \o PushTriggers(cs, i + 1)

RECURSIVE PushKeywords(_, _)
PushKeywords(cs, i) ==
    IF i > Len(skillKeywords) THEN <<>>
    ELSE (IF Includes(cs, Chars(skillKeywords[i])) THEN <<skillKeywords[i]>> ELSE <<>>)
         \o PushKeywords(cs, i + 1)

\* RequirementsOf with the curated keywords pushed before the trigger phrases
RequirementsOf_KeywordsFirst(cs) == PushKeywords(cs, 1) \o PushTriggers(cs, 1)

\* the requirements list before the fallback
RequirementsOf(cs) == PushTriggers(cs, 1) \o PushKeywords(cs, 1)

JobOf(cs) ==
    LET cm == companyMatch(cs)
        rm == roleMatch(cs)
        requirements == RequirementsOf(cs)
    IN  Returned(
          [company |-> IF cm.found THEN Str(Trim(Group1(cs, cm))) ELSE "the company",
           role |-> IF rm.found THEN Str(Trim(Group1(cs, rm))) ELSE "the position",
           requirements |-> IF requirements # <<>> THEN requirements
                            ELSE <<"Various skills and experiences">>])

analyzeJobDescription(jdText) ==
    CHOOSE r \in {JobOf(cs) : cs \in {Chars(jdText) \o <<>>}} : TRUE

(***************************************************************************)
(* Request handling of the gated server                                    *)
(***************************************************************************)
VARIABLES
    apiKeySet,   \* GEMINI_API_KEY is configured (fixed when the process starts)
    req,         \* the request being served
    pc,          \* where the request is in its middleware chain
    sent,        \* the responses sent for the request, in order
    gate,        \* what verifyPayment did: "pending", "passed" or "rejected"
    payment,     \* the outcome of razorpay.payments.fetch, "none" before it
    fetchCalls,  \* calls of razorpay.payments.fetch made for the request
    aiCalls,     \* calls of the generative-language API made for the request
    prompt,      \* what generateCoverLetter put in its prompt
    text,        \* the input of an extractor call
    result       \* the outcome of the extractor call

httpVars == <<apiKeySet, req, pc, sent, gate, payment, fetchCalls, aiCalls, prompt>>

extractVars == <<text, result>>

vars == <<apiKeySet, req, pc, sent, gate, payment, fetchCalls, aiCalls, prompt,
          text, result>>

\* a body field that is absent (undefined)
Undefined == "<undefined>"

\* !v for a field that is a string or absent
Falsy(v) == v = Undefined \/ v = ""

ALLOWED_FILE_TYPES ==
    {"application/pdf",
     "application/vnd.openxmlformats-officedocument.wordprocessingml.document"}

\* limits.fileSize
MaxFileSize == 5 * 1024 * 1024

PROMO_CODE == "070605"

\* body('jobDescription').isLength({ min: 20 })
MinJdLength == 20

ExampleJob ==
    "We are looking for a Backend Engineer at Acme Corp. Must have experience with Docker and AWS."

ExampleResume ==
    "Ann Lee\nann@lee.io 555-123-4567\nSkills\nGo, Rust; Python\nEducation:\nBSc Computer Science, MIT"

(***************************************************************************)
(* The requests that are served                                            *)
(***************************************************************************)
NoFile == [present |-> FALSE]

Files ==
    [present : {TRUE},
     mimetype : ALLOWED_FILE_TYPES \cup {"text/plain"},
     size : {1024, MaxFileSize, MaxFileSize + 1},
     text : {"", " \n", ExampleResume}]

NoResume == [present |-> FALSE]

\* resumeData of a /generate body.  lists tells whether experience,
\* education and skills are arrays, as they are in what /upload returns.
ResumeDatas ==
    {NoResume}
    \cup [present : {TRUE}, name : {"", "Ann Lee"}, email : {"", "ann@lee.io"},
          lists : BOOLEAN]

NoBody == [endpoint |-> "none"]

UploadRequests == [endpoint : {"/upload"}, file : {NoFile} \cup Files]

AnalyzeRequests ==
    [endpoint : {"/analyze-jd"},
     jobDescription : {Undefined, "Java developer", "Company: Acme. Role: developer",
                       ExampleJob}]

GenerateRequests ==
    [endpoint : {"/generate"},
     promoCode : {Undefined, PROMO_CODE, "SAVE10"},
     paymentId : {Undefined, "pay_29QQoUBi66xm2f"},
     resumeData : ResumeDatas,
     jobDescription : {Undefined, "", ExampleJob},
     tone : {Undefined, "friendly"}]

Requests == UploadRequests \cup AnalyzeRequests \cup GenerateRequests

\* what razorpay.payments.fetch can come back with: a rejection, or a
\* payment in one of the gateway's states
FetchOutcomes == {"rejected", "created", "authorized", "captured", "failed"}

\* what axios.post to the generative-language API can come back with
AiOutcomes == {"text", "no_candidates", "api_error", "network_error"}

NoData == [kind |-> "none"]

NoPrompt == [built |-> FALSE]

NotCalled == [raised |-> FALSE, called |-> FALSE]

Response(status, error, data) == [status |-> status, error |-> error, data |-> data]

\* res.status(status).json({error, ...}) and the end of the request
Respond(status, error, data) ==
    /\ sent' = Append(sent, Response(status, error, data))
    /\ pc' = "done"

(***************************************************************************)
(* The middleware chain                                                    *)
(***************************************************************************)
\* a request arrives; cors, the body parsers and the rate limiter have let
\* it through
Receive ==
    /\ pc \in {"idle", "done"}
    /\ \E r \in Requests : req' = r
    /\ pc' = "logging"
    /\ sent' = <<>>
    /\ gate' = "pending"
    /\ payment' = "none"
    /\ fetchCalls' = 0
    /\ aiCalls' = 0
    /\ prompt' = NoPrompt
    /\ UNCHANGED <<apiKeySet, text, result>>

\* the route the request goes to after the global middleware
Route(r) ==
    CASE r.endpoint = "/upload" -> "multer"
      [] r.endpoint = "/analyze-jd" -> "analyze"
      [] r.endpoint = "/generate" -> "verify"

\* app.use(async (req, res, next) => ...): RequestLog is declared nowhere
\* (its definition is commented out), so RequestLog.create throws inside the
\* try and the catch calls next(): one call of next() either way
RequestLogging ==
    /\ pc = "logging"
    /\ pc' = Route(req)
    /\ UNCHANGED <<apiKeySet, req, sent, gate, payment, fetchCalls, aiCalls, prompt,
                   text, result>>

\* upload.single('resume'): the fileFilter and the size limit hand an Error
\* to next(err); otherwise the handler runs, with req.file unset when the
\* request carries no file
UploadSingle ==
    /\ pc = "multer"
    /\ pc' = IF ~req.file.present THEN "upload"
             ELSE IF req.file.mimetype \notin ALLOWED_FILE_TYPES THEN "error"
             ELSE IF req.file.size > MaxFileSize THEN "error"
             ELSE "upload"
    /\ UNCHANGED <<apiKeySet, req, sent, gate, payment, fetchCalls, aiCalls, prompt,
                   text, result>>

\* app.use((err, req, res, next) => ...): every error handed to next(err)
\* is answered 500.  (Where this middleware is not registered Express's own
\* final handler answers 500 as well: the errors carry no status.)
ErrorMiddleware ==
    /\ pc = "error"
    /\ Respond(500, "Something went wrong!", NoData)
    /\ UNCHANGED <<apiKeySet, req, gate, payment, fetchCalls, aiCalls, prompt,
                   text, result>>

\* app.post('/upload') up to the await of pdf() or mammoth.extractRawText()
UploadHandler ==
    /\ pc = "upload"
    /\ IF ~req.file.present
       THEN Respond(400, "No file uploaded", NoData)
       ELSE /\ pc' = "parsing"
            /\ sent' = sent
    /\ UNCHANGED <<apiKeySet, req, gate, payment, fetchCalls, aiCalls, prompt,
                   text, result>>

\* the text extraction settles: a rejection, or the document's text, which
\* extractResumeData turns into the record that is returned
ParseReturn ==
    /\ pc = "parsing"
    /\ \E ok \in BOOLEAN :
         IF ~ok
         THEN Respond(500, "Error processing resume", NoData)
         ELSE LET resumeData == extractResumeData(req.file.text)
              IN  IF resumeData.raised
                  THEN Respond(500, "Error processing resume", NoData)
                  ELSE Respond(200, "", resumeData.value)
    /\ UNCHANGED <<apiKeySet, req, gate, payment, fetchCalls, aiCalls, prompt,
                   text, result>>

\* line 227: analyzeJobDescription(jdText).  The handler binds jobDescription;
\* jdText is bound nowhere in its scope, so evaluating the argument throws a
\* ReferenceError before analyzeJobDescription is entered.
AnalyzeCall(jobDescription) == Raised("ReferenceError")

\* app.post('/analyze-jd'): the validator, then the handler
AnalyzeHandler ==
    /\ pc = "analyze"
    /\ IF req.jobDescription = Undefined \/ Len(req.jobDescription) < MinJdLength
       THEN Respond(400, "Invalid job description", NoData)
       ELSE LET jdData == AnalyzeCall(req.jobDescription)
            IN  IF jdData.raised
                THEN Respond(500, "Error analyzing job description", NoData)
                ELSE Respond(200, "", jdData.value)
    /\ UNCHANGED <<apiKeySet, req, gate, payment, fetchCalls, aiCalls, prompt,
                   text, result>>

\* VerifyPayment with the promo code tested for presence, not for its value
VerifyPayment_AnyPromo ==
    /\ pc = "verify"
    /\ IF ~Falsy(req.promoCode)
       THEN /\ gate' = "passed"
            /\ pc' = "generate"
            /\ UNCHANGED <<sent, fetchCalls>>
       ELSE IF Falsy(req.paymentId)
       THEN /\ gate' = "rejected"
            /\ Respond(403, "Payment required", NoData)
            /\ UNCHANGED fetchCalls
       ELSE /\ fetchCalls' = fetchCalls + 1
            /\ pc' = "fetching"
            /\ UNCHANGED <<sent, gate>>
    /\ UNCHANGED <<apiKeySet, req, payment, aiCalls, prompt, text, result>>

\* VerifyPayment with the presence of resumeData and jobDescription tested
\* before the payment
VerifyPayment_ValidatesFirst ==
    /\ pc = "verify"
    /\ IF ~req.resumeData.present \/ Falsy(req.jobDescription)
       THEN /\ Respond(400, "Missing data", NoData)
            /\ UNCHANGED <<gate, fetchCalls>>
       ELSE IF req.promoCode = PROMO_CODE
       THEN /\ gate' = "passed"
            /\ pc' = "generate"
            /\ UNCHANGED <<sent, fetchCalls>>
       ELSE IF Falsy(req.paymentId)
       THEN /\ gate' = "rejected"
            /\ Respond(403, "Payment required", NoData)
            /\ UNCHANGED fetchCalls
       ELSE /\ fetchCalls' = fetchCalls + 1
            /\ pc' = "fetching"
            /\ UNCHANGED <<sent, gate>>
    /\ UNCHANGED <<apiKeySet, req, payment, aiCalls, prompt, text, result>>

\* verifyPayment up to the await of razorpay.payments.fetch
VerifyPayment ==
    /\ pc = "verify"
    /\ IF req.promoCode = PROMO_CODE
       THEN /\ gate' = "passed"
            /\ pc' = "generate"
            /\ UNCHANGED <<sent, fetchCalls>>
       ELSE IF Falsy(req.paymentId)
       THEN /\ gate' = "rejected"
            /\ Respond(403, "Payment required", NoData)
            /\ UNCHANGED fetchCalls
       ELSE /\ fetchCalls' = fetchCalls + 1
            /\ pc' = "fetching"
            /\ UNCHANGED <<sent, gate>>
    /\ UNCHANGED <<apiKeySet, req, payment, aiCalls, prompt, text, result>>

\* lines 145-151: Payment.create(...).  Payment is declared nowhere (its
\* definition, lines 65-72, is commented out), so the call throws a
\* ReferenceError inside the try.
PaymentCreate == Raised("ReferenceError")

\* verifyPayment after the fetch settles
FetchReturn ==
    /\ pc = "fetching"
    /\ \E outcome \in FetchOutcomes :
         /\ payment' = outcome
         /\ IF outcome = "rejected"
            THEN /\ gate' = "rejected"
                 /\ Respond(500, "Payment verification failed", NoData)
            ELSE IF outcome # "captured"
            THEN /\ gate' = "rejected"
                 /\ Respond(403, "Payment not completed", NoData)
            ELSE IF PaymentCreate.raised
            THEN /\ gate' = "rejected"
                 /\ Respond(500, "Payment verification failed", NoData)
            ELSE /\ gate' = "passed"
                 /\ pc' = "generate"
                 /\ sent' = sent
    /\ UNCHANGED <<apiKeySet, req, fetchCalls, aiCalls, prompt, text, result>>

\* app.post('/generate') up to the await of axios.post in generateCoverLetter
GenerateHandler ==
    /\ pc = "generate"
    /\ IF ~req.resumeData.present \/ Falsy(req.jobDescription)
       THEN /\ Respond(400, "Missing data", NoData)
            /\ UNCHANGED <<aiCalls, prompt>>
       ELSE IF Falsy(req.resumeData.name) \/ Falsy(req.resumeData.email)
       THEN /\ Respond(400, "Incomplete resume", NoData)
            /\ UNCHANGED <<aiCalls, prompt>>
       ELSE IF ~apiKeySet
       THEN /\ Respond(500, "Configuration error", NoData)
            /\ UNCHANGED <<aiCalls, prompt>>
       ELSE LET jdData == analyzeJobDescription(req.jobDescription)
            IN  IF ~req.resumeData.lists
                THEN \* resumeData.experience.join throws while the prompt is
                     \* built; the catch answers
                     /\ Respond(500, "Error generating cover letter", NoData)
                     /\ UNCHANGED <<aiCalls, prompt>>
                ELSE /\ prompt' =
                          [built |-> TRUE, name |-> req.resumeData.name,
                           role |-> jdData.value.role,
                           company |-> jdData.value.company,
                           requirements |-> jdData.value.requirements,
                           tone |-> IF req.tone = Undefined THEN "formal"
                                    ELSE req.tone]
                     /\ aiCalls' = aiCalls + 1
                     /\ pc' = "composing"
                     /\ sent' = sent
    /\ UNCHANGED <<apiKeySet, req, gate, payment, fetchCalls, text, result>>

\* AiReturn with the call issued again after a network error
AiReturn_Retries ==
    /\ pc = "composing"
    /\ \E outcome \in AiOutcomes :
         CASE outcome = "text" ->
                /\ Respond(200, "", [kind |-> "coverLetter"])
                /\ UNCHANGED aiCalls
           [] outcome = "no_candidates" ->
                /\ Respond(500, "Error generating cover letter", NoData)
                /\ UNCHANGED aiCalls
           [] outcome = "api_error" ->
                /\ Respond(400, "AI API Error", NoData)
                /\ UNCHANGED aiCalls
           [] outcome = "network_error" ->
                IF aiCalls <= 2
                THEN /\ aiCalls' = aiCalls + 1
                     /\ UNCHANGED <<pc, sent>>
                ELSE /\ Respond(500, "Error generating cover letter", NoData)
                     /\ UNCHANGED aiCalls
    /\ UNCHANGED <<apiKeySet, req, gate, payment, fetchCalls, prompt, text, result>>

\* generateCoverLetter after axios.post settles, and the rest of the handler
AiReturn ==
    /\ pc = "composing"
    /\ \E outcome \in AiOutcomes :
         CASE outcome = "text" -> Respond(200, "", [kind |-> "coverLetter"])
           [] outcome = "no_candidates" ->
                Respond(500, "Error generating cover letter", NoData)
           [] outcome = "api_error" -> Respond(400, "AI API Error", NoData)
           [] outcome = "network_error" ->
                Respond(500, "Error generating cover letter", NoData)
    /\ UNCHANGED <<apiKeySet, req, gate, payment, fetchCalls, aiCalls, prompt,
                   text, result>>

Init ==
    /\ apiKeySet \in BOOLEAN
    /\ req = NoBody
    /\ pc = "idle"
    /\ sent = <<>>
    /\ gate = "pending"
    /\ payment = "none"
    /\ fetchCalls = 0
    /\ aiCalls = 0
    /\ prompt = NoPrompt
    /\ text = ""
    /\ result = NotCalled

Next ==
    \/ Receive
    \/ RequestLogging
    \/ UploadSingle
    \/ ErrorMiddleware
    \/ UploadHandler
    \/ ParseReturn
    \/ AnalyzeHandler
    \/ VerifyPayment
    \/ FetchReturn
    \/ GenerateHandler
    \/ AiReturn

Spec == Init /\ [][Next]_vars

(***************************************************************************)
(* The extractors on their own: a text is given, the extractor is called   *)
(* once, and its outcome is kept in result.                                *)
(***************************************************************************)
MaxJobFrags == 3

MaxResumeLines == 3

MaxReqFrags == 3

JobFragments ==
    {"at ", "about ", "company: ", "role: ", "looking for a ",
     "Acme", "scale", "Dev", "\n"}

\* pieces of a job text that hold trigger words and curated keywords: alone,
\* inside a longer word (steam, JavaScript, NoSQL) and in another letter
\* case (Team)
ReqFragments ==
    {"JavaScript ", "NoSQL", "steam ", "experience ", "Team ", "degree", "C++ "}

ResumeLines ==
    {"Ann Lee\n", "ann@lee.io 555-123-4567\n", "Skills\n", "Go, Rust; Python\n",
     "Education:\n", "BSc Computer Science\n", " \n"}

RECURSIVE Concats(_, _)
\* the texts made of at most n of the pieces, one after the other
Concats(pieces, n) ==
    IF n = 0 THEN {""}
    ELSE LET shorter == Concats(pieces, n - 1)
         IN  shorter \cup {t \o f : t \in shorter, f \in pieces}

JobTexts ==
    Concats(JobFragments, MaxJobFrags) \cup Concats(ReqFragments, MaxReqFrags)
    \cup {ExampleJob}

ResumeTexts == Concats(ResumeLines, MaxResumeLines) \cup {ExampleResume}

Called == result # NotCalled

IdleServer ==
    /\ apiKeySet = TRUE
    /\ req = NoBody
    /\ pc = "idle"
    /\ sent = <<>>
    /\ gate = "pending"
    /\ payment = "none"
    /\ fetchCalls = 0
    /\ aiCalls = 0
    /\ prompt = NoPrompt

InitJob == IdleServer /\ text \in JobTexts /\ result = NotCalled

AnalyzeJob ==
    /\ ~Called
    /\ result' = analyzeJobDescription(text)
    /\ UNCHANGED <<text, httpVars>>

NextJob == AnalyzeJob

SpecJob == InitJob /\ [][NextJob]_vars

InitResume == IdleServer /\ text \in ResumeTexts /\ result = NotCalled

ExtractResume ==
    /\ ~Called
    /\ result' = extractResumeData(text)
    /\ UNCHANGED <<text, httpVars>>

NextResume == ExtractResume

SpecResume == InitResume /\ [][NextResume]_vars

(***************************************************************************)
(* The claims                                                              *)
(***************************************************************************)
IsGenerate == req.endpoint = "/generate"

\* C1: in the gated /generate, the composer (the prompt and the call of the
\* generative-language API) is reached only by a request whose gate has
\* passed, that is one that carried the promo code 070605 or whose fetched
\* payment was captured; once the gate has answered 403 or 500 the composer
\* is never invoked for the request.
C1_ComposerOnlyAfterGate ==
    /\ (aiCalls > 0 \/ prompt.built \/ pc \in {"generate", "composing"}) =>
          /\ IsGenerate
          /\ gate = "passed"
          /\ (req.promoCode = PROMO_CODE \/ payment = "captured")
    /\ gate = "rejected" =>
          /\ aiCalls = 0
          /\ ~prompt.built
          /\ pc = "done"
          /\ sent[1].status \in {403, 500}

\* a request that passed the gate and for which the composer was called
C1_Witness == IsGenerate /\ gate = "passed" /\ aiCalls = 1 /\ pc = "done"

\* C2: a gated /generate request passes the gate whenever it carries the
\* valid promo code, and also whenever the gateway returns a payment with
\* status captured for its paymentId.
C2_GatePassesOnPromoOrCaptured ==
    (IsGenerate /\ gate # "pending") =>
        ((req.promoCode = PROMO_CODE \/ payment = "captured") => gate = "passed")

\* the request carries what the endpoint's validation rejects
InputInvalid ==
    CASE req.endpoint = "/upload" ->
           \/ ~req.file.present
           \/ req.file.mimetype \notin ALLOWED_FILE_TYPES
           \/ req.file.size > MaxFileSize
      [] req.endpoint = "/analyze-jd" ->
           \/ req.jobDescription = Undefined
           \/ Len(req.jobDescription) < MinJdLength
      [] req.endpoint = "/generate" ->
           /\ gate = "passed"
           /\ \/ ~req.resumeData.present
              \/ Falsy(req.jobDescription)
              \/ Falsy(req.resumeData.name)
              \/ Falsy(req.resumeData.email)
      [] OTHER -> FALSE

\* C5: a missing upload file, a disallowed MIME type, an upload over the
\* size limit, a missing or short job description and missing required
\* resume fields each end the request with a status in 400..499.
C5_ValidationErrorsAre4xx ==
    (pc = "done" /\ InputInvalid) =>
        (sent[1].status >= 400 /\ sent[1].status <= 499)

\* C6: POST /analyze-jd answers a request whose jobDescription is missing or
\* shorter than 20 characters with the validation error, and every other
\* request with success and the JobRecord of its jobDescription.
C6_AnalyzeAnswersJobRecord ==
    (pc = "done" /\ req.endpoint = "/analyze-jd") =>
        IF InputInvalid
        THEN sent[1].status = 400
        ELSE /\ sent[1].status = 200
             /\ sent[1].data = analyzeJobDescription(req.jobDescription).value

\* C7: for a gated /generate request the payment fetch and the AI call are
\* each issued at most once, a payment failure means the composer is never
\* reached, nothing happens after a response, and the request ends with
\* exactly one response.
C7_SequentialOneResponse ==
    IsGenerate =>
        /\ fetchCalls <= 1
        /\ aiCalls <= 1
        /\ (aiCalls = 1 => gate = "passed")
        /\ (gate = "rejected" => aiCalls = 0)
        /\ (pc = "done" => Len(sent) = 1)
        /\ (pc # "done" => sent = <<>>)
        /\ (pc = "fetching" => fetchCalls = 1 /\ aiCalls = 0)
        /\ (pc = "composing" => aiCalls = 1)

\* a request that ended with one 500 after its one AI call failed
C7_Witness ==
    /\ IsGenerate /\ pc = "done" /\ aiCalls = 1 /\ fetchCalls = 0
    /\ Len(sent) = 1 /\ sent[1].status = 500

\* C3: extractResumeData never raises, whatever the text.
C3_ExtractNeverRaises == Called => ~result.raised

\* C4: every returned JobRecord has a non-empty company, a non-empty role
\* and a non-empty requirements sequence.
C4_JobRecordFullyPopulated ==
    (Called /\ ~result.raised) =>
        /\ result.value.company # ""
        /\ result.value.role # ""
        /\ result.value.requirements # <<>>

\* C8: for the example job text the role is exactly "Backend Engineer".
C8_RoleIsPhraseOnly ==
    (Called /\ text = ExampleJob) => result.value.role = "Backend Engineer"

\* sub occurs in cs, letter case ignored
IncludesCI(cs, sub) ==
    \E i \in 1..(Len(cs) - Len(sub) + 1) :
        \A j \in 1..Len(sub) : InClass(cs[i + j - 1], {sub[j]}, TRUE)

SkillsExample == "Skills\nGo, Rust; Python\nEducation:"

\* the text's first skills heading is the one of SkillsExample
TakesSkillsExample(t) ==
    \E i \in 1..(Len(t) - Len(SkillsExample) + 1) :
        /\ SubSeq(t, i, i + Len(SkillsExample) - 1) = SkillsExample
        /\ ~IncludesCI(Chars(SubSeq(t, 1, i + 4)), Chars("skills"))

\* C9 as claimed: the skills of the example are Go, Rust and Python.
C9_SkillsKeepEveryToken ==
    (Called /\ TakesSkillsExample(text)) =>
        result.value.skills = <<"Go", "Rust", "Python">>

\* C9 as amended: the skills of the example are Rust and Python, and no
\* returned skill has fewer than three characters.
C9_SkillsKeepLongTokens ==
    (Called /\ ~result.raised) =>
        /\ \A i \in 1..Len(result.value.skills) : Len(result.value.skills[i]) > 2
        /\ TakesSkillsExample(text) => result.value.skills = <<"Rust", "Python">>

\* the extractor has returned for a text that holds the example
C9_Witness == Called /\ ~result.raised /\ TakesSkillsExample(text)

\* C10: the company is the trimmed capture of the first of the patterns
\* (a) at, (b) company:, (c) about that matches; (a) and (c) match only when
\* the word after at/about begins with a capital letter; the company is
\* "the company" when none matches.
C10_CompanyPrecedence ==
    (Called /\ ~result.raised) =>
        LET cs == Chars(text)
            a == Match(cs, CompanyAtRx)
            b == Match(cs, CompanyLabelRx)
            c == Match(cs, CompanyAboutRx)
        IN  /\ a.found => cs[a.capStart] \in Upper
            /\ c.found => cs[c.capStart] \in Upper
            /\ result.value.company =
                 IF a.found THEN Str(Trim(Group1(cs, a)))
                 ELSE IF b.found THEN Str(Trim(Group1(cs, b)))
                 ELSE IF c.found THEN Str(Trim(Group1(cs, c)))
                 ELSE "the company"


\* the substrings that are looked for and the item each one appends, in the
\* order of the checks: the five triggers, then the curated keywords
CheckOrder ==
    [i \in 1..(Len(Triggers) + Len(skillKeywords)) |->
        IF i <= Len(Triggers) THEN Triggers[i]
        ELSE <<skillKeywords[i - Len(Triggers)], skillKeywords[i - Len(Triggers)]>>]

\* the place of an item in the order of the checks
Rank(item) == CHOOSE i \in 1..Len(CheckOrder) : CheckOrder[i][2] = item

\* the checks whose substring occurs in cs
Present(cs) ==
    CHOOSE r \in {{i \in DOMAIN hit : hit[i]} :
                    hit \in {[i \in 1..Len(CheckOrder) |->
                                Includes(cs, Chars(CheckOrder[i][1]))] \o <<>>}} : TRUE

\* the position in cs of the first occurrence of sub, 0 when there is none
IndexOf(cs, sub) ==
    IF Includes(cs, sub)
    THEN CHOOSE i \in 1..Len(cs) :
            /\ SubSeq(cs, i, i + Len(sub) - 1) = sub
            /\ \A j \in 1..(i - 1) : SubSeq(cs, j, j + Len(sub) - 1) # sub
    ELSE 0

\* C11: the requirements hold the item of a check exactly when the text
\* contains the check's substring (also inside a longer word), in the fixed
\* order of the checks (triggers, then keywords in list order) whatever the
\* positions in the text; they are the one-element placeholder exactly when
\* no substring is contained.
C11_RequirementsByContainment ==
    (Called /\ ~result.raised) =>
        LET reqs == result.value.requirements
            present == Present(Chars(text))
        IN  /\ (reqs = <<"Various skills and experiences">>) <=> (present = {})
            /\ present # {} =>
                  /\ {reqs[k] : k \in 1..Len(reqs)} =
                        {CheckOrder[i][2] : i \in present}
                  /\ \A k \in 1..(Len(reqs) - 1) : Rank(reqs[k]) < Rank(reqs[k + 1])

\* a text where JavaScript comes before a trigger word that is part of a
\* longer word: the trigger's phrase is first, then JavaScript and Java
C11_Witness ==
    /\ Called
    /\ ~result.raised
    /\ result.value.requirements = <<"Team player", "JavaScript", "Java">>
    /\ IndexOf(Chars(text), Chars("JavaScript")) < IndexOf(Chars(text), Chars("team"))
    /\ IndexOf(Chars(text), Chars("JavaScript")) > 0


\* the request carries neither the valid promo code nor a paymentId
Unpaid == req.promoCode # PROMO_CODE /\ Falsy(req.paymentId)

\* the answers of the /generate handler's own checks
HandlerRefusals ==
    {Response(400, "Missing data", NoData),
     Response(400, "Incomplete resume", NoData),
     Response(500, "Configuration error", NoData)}

\* C12: in the gated /generate the payment check comes before all input
\* validation: a request with neither the valid promo code nor a paymentId
\* is answered 403 Payment required, also when resumeData or jobDescription
\* is missing, and the answers 400 Missing data, 400 Incomplete resume and
\* 500 Configuration error are given only to a request that passed the gate.
C12_GateBeforeValidation ==
    (IsGenerate /\ pc = "done") =>
        /\ Unpaid => sent = <<Response(403, "Payment required", NoData)>>
        /\ (\E k \in 1..Len(sent) : sent[k] \in HandlerRefusals) => gate = "passed"

\* an unpaid request without resumeData that was answered 403
C12_Witness ==
    /\ IsGenerate
    /\ pc = "done"
    /\ Unpaid
    /\ ~req.resumeData.present
    /\ req.jobDescription = Undefined
    /\ sent = <<Response(403, "Payment required", NoData)>>

=============================================================================
